---- MODULE Spec2Model ----
(***************************************************************************)
(* A model of evm-vanity-gen (src/index.js): the main thread validates the *)
(* pattern, spawns worker threads and drains their messages; every worker  *)
(* loops generating keypairs, comparing the address with the pattern and   *)
(* posting 'found' and 'tick' messages.                                    *)
(*                                                                         *)
(* Strings are sequences of one-character strings.  Addresses are "0x"     *)
(* followed by two hex characters in mixed (checksum) case.                *)
(***************************************************************************)
EXTENDS Integers, Sequences, FiniteSets, TLC

(***************************************************************************)
(* Bounds of the model.                                                    *)
(***************************************************************************)
\* BATCH_SIZE is 2000 at src/index.js:212; the model scales it down so that
\* batch boundaries are reached within MaxIter iterations.
BATCH_SIZE == 2
\* Iterations of its loop a worker is followed for.
MaxIter == 3
\* Longest prefix / suffix the pattern specification draws.
MaxPrefixLen == 3
MaxSuffixLen == 2
\* Iterations a worker is followed for in the timed runs.
MaxTimedIter == 5
\* Date.now() when the program starts, in milliseconds.
StartClock == 1000
\* Milliseconds of the run the clock is followed for.
MaxElapsed == 201

(***************************************************************************)
(* Numbers of the statistics.  Probabilities are in units of 1/100000.     *)
(***************************************************************************)
\* Line 179: the interval between two snapshots, in milliseconds.
LogInterval == 100
\* Line 183: 1.
ProbOne == 100000
\* Line 184: 0.9999.
ProbClamp == 99990

(***************************************************************************)
(* Strings.                                                                *)
(***************************************************************************)
HexChars ==
    {"0", "1", "2", "3", "4", "5", "6", "7", "8", "9",
     "a", "b", "c", "d", "e", "f", "A", "B", "C", "D", "E", "F"}

\* String.prototype.toLowerCase on one character.
LowerChar(c) ==
    CASE c = "A" -> "a" [] c = "B" -> "b" [] c = "C" -> "c" [] c = "D" -> "d"
      [] c = "E" -> "e" [] c = "F" -> "f" [] c = "G" -> "g" [] c = "X" -> "x"
      [] OTHER -> c

ToLowerCase(s) == [i \in DOMAIN s |-> LowerChar(s[i])]

StartsWith(s, p) == Len(p) <= Len(s) /\ SubSeq(s, 1, Len(p)) = p

EndsWith(s, p) == Len(p) <= Len(s) /\ SubSeq(s, Len(s) - Len(p) + 1, Len(s)) = p

\* s.slice(2)
Slice2(s) == SubSeq(s, 3, Len(s))

\* /^[0-9a-fA-F]+$/.test(s)
IsHex(s) == Len(s) >= 1 /\ \A i \in DOMAIN s : s[i] \in HexChars

\* All strings over alphabet cs of length at most n.
RECURSIVE Strs(_, _)
Strs(cs, n) ==
    IF n = 0 THEN {<<>>}
    ELSE LET shorter == Strs(cs, n - 1)
         IN  shorter \cup {Append(s, c) : s \in shorter, c \in cs}

(***************************************************************************)
(* The cryptographic provider: generatePrivateKey() draws a key, and       *)
(* privateKeyToAccount(pk).address is a fixed function of the key.         *)
(***************************************************************************)
AddressOf ==
    << <<"0", "x", "A", "0">>,
       <<"0", "x", "a", "B">>,
       <<"0", "x", "b", "0">> >>

Keys == DOMAIN AddressOf

PrivateKeyToAddress(pk) == AddressOf[pk]

(***************************************************************************)
(* Inputs.                                                                 *)
(***************************************************************************)
\* Characters the command line may put in --prefix / --suffix.
PatChars == {"0", "x", "a", "A", "g"}

\* Patterns of the concurrent runs.
RunPrefixes == {<<>>, <<"a">>, <<"A">>}
RunSuffixes == {<<>>, <<"0">>}

\* Values of config.threads of the concurrent runs.
ThreadCounts == {1, 2}

Workers == 1 .. (CHOOSE n \in ThreadCounts : \A m \in ThreadCounts : m <= n)

NoData == [prefix |-> <<>>, suffix |-> <<>>, isCaseSensitive |-> FALSE]

VARIABLES
    config,       \* parseArgs(): prefix, suffix, caseSensitive, threads
    mainPc,       \* position of the main thread
    errorMsg,     \* what console.error printed before process.exit(1)
    workerData,   \* the workerData every Worker is constructed with
    spawned,      \* workers.length
    wstate,       \* per worker: "none", "running" or "terminated"
    localCount,   \* per worker: localCount
    chan,         \* per worker: messages posted and not yet handled
    totalCount,   \* totalCount
    results,      \* the success boxes printed (one record per box)
    difficulty,   \* difficulty (0 before line 128)
    now,          \* the clock: what Date.now() returns
    startTime,    \* startTime (0 before line 142)
    lastLog,      \* lastLog
    rendered,     \* the last progress line written (NoSnapshot: none)
    \* history of the run, read by the properties only
    iters,        \* per worker: iterations performed
    sent,         \* per worker: every message it posted, in order
    firstMatch,   \* per worker: iteration of its first match (0: none yet)
    lastEval,     \* per worker: address and outcome of the last comparison
    ticksDrained, \* 'tick' messages handled
    lateIter      \* an iteration started after the success box was printed

vars ==
    <<config, mainPc, errorMsg, workerData, spawned, wstate, localCount,
      chan, totalCount, results, difficulty, now, startTime, lastLog,
      rendered, iters, sent, firstMatch, lastEval, ticksDrained, lateIter>>

\* What only the statistics of the main thread write.
statVars == <<difficulty, startTime, lastLog, rendered>>

NoEval == [addr |-> <<>>, match |-> FALSE]

\* A JavaScript number that is a whole number or Infinity.
Finite(n) == [inf |-> FALSE, val |-> n]
Infinity == [inf |-> TRUE, val |-> 0]

NoSnapshot ==
    [scanned |-> 0, elapsed |-> 0, speed |-> Finite(0), exp |-> ProbOne,
     prob |-> 0, any |-> FALSE]

InitWith(prefixes, suffixes, threadCounts) ==
    /\ config \in [prefix : prefixes, suffix : suffixes,
                   caseSensitive : BOOLEAN, threads : threadCounts]
    /\ mainPc = "validate"
    /\ errorMsg = "none"
    /\ workerData = NoData
    /\ spawned = 0
    /\ wstate = [w \in Workers |-> "none"]
    /\ localCount = [w \in Workers |-> 0]
    /\ chan = [w \in Workers |-> <<>>]
    /\ totalCount = 0
    /\ results = <<>>
    /\ difficulty = 0
    /\ now = StartClock
    /\ startTime = 0
    /\ lastLog = 0
    /\ rendered = NoSnapshot
    /\ iters = [w \in Workers |-> 0]
    /\ sent = [w \in Workers |-> <<>>]
    /\ firstMatch = [w \in Workers |-> 0]
    /\ lastEval = [w \in Workers |-> NoEval]
    /\ ticksDrained = 0
    /\ lateIter = FALSE

Init == InitWith(RunPrefixes, RunSuffixes, ThreadCounts)

(***************************************************************************)
(* Main thread, lines 112-144: validation, normalisation, initial state.   *)
(***************************************************************************)
FullPattern(cfg) == cfg.prefix \o cfg.suffix

TargetPrefix(cfg) ==
    IF cfg.caseSensitive THEN cfg.prefix ELSE ToLowerCase(cfg.prefix)

TargetSuffix(cfg) ==
    IF cfg.caseSensitive THEN cfg.suffix ELSE ToLowerCase(cfg.suffix)

CleanPrefix(cfg) ==
    IF StartsWith(TargetPrefix(cfg), <<"0", "x">>)
    THEN Slice2(TargetPrefix(cfg))
    ELSE TargetPrefix(cfg)

\* Counts the prefix only.
TotalHexCharsPrefixOnly(cfg) == Len(CleanPrefix(cfg))

TotalHexChars(cfg) == Len(CleanPrefix(cfg)) + Len(TargetSuffix(cfg))

RECURSIVE Pow(_, _)
Pow(b, n) == IF n = 0 THEN 1 ELSE b * Pow(b, n - 1)

Difficulty(cfg) == Pow(16, TotalHexChars(cfg))

\* A validation that looks at the prefix only.
ValidationPrefixOnly(cfg) ==
    IF FullPattern(cfg) = <<>> THEN "Empty"
    ELSE IF cfg.prefix # <<>> /\ ~IsHex(cfg.prefix) THEN "InvalidHex"
    ELSE "ok"

\* The outcome of lines 114-121: "ok", or the error the run exits with.
Validation(cfg) ==
    IF FullPattern(cfg) = <<>> THEN "Empty"
    ELSE IF ~IsHex(FullPattern(cfg)) THEN "InvalidHex"
    ELSE "ok"

Validate ==
    /\ mainPc = "validate"
    /\ IF Validation(config) # "ok"
       THEN /\ errorMsg' = Validation(config)
            /\ mainPc' = "exit1"
            /\ UNCHANGED <<workerData, difficulty, startTime>>
       ELSE /\ workerData' = [prefix |-> CleanPrefix(config),
                              suffix |-> TargetSuffix(config),
                              isCaseSensitive |-> config.caseSensitive]
            /\ difficulty' = Difficulty(config)
            /\ startTime' = now
            /\ mainPc' = "spawn"
            /\ UNCHANGED errorMsg
    /\ UNCHANGED <<config, spawned, wstate, localCount, chan, totalCount,
                   results, now, lastLog, rendered, iters, sent, firstMatch,
                   lastEval, ticksDrained, lateIter>>

(***************************************************************************)
(* Main thread, lines 146-154: one turn of the spawn loop.  The new thread *)
(* runs from now on; its messages are handled once the loop is over.       *)
(***************************************************************************)
Spawn ==
    /\ mainPc = "spawn"
    /\ spawned < config.threads
    /\ spawned' = spawned + 1
    /\ wstate' = [wstate EXCEPT ![spawned + 1] = "running"]
    /\ mainPc' = IF spawned + 1 = config.threads THEN "listen" ELSE "spawn"
    /\ UNCHANGED <<now, statVars, config, errorMsg, workerData, localCount, chan, totalCount,
                   results, iters, sent, firstMatch, lastEval, ticksDrained,
                   lateIter>>

(***************************************************************************)
(* Main thread, lines 156-171: the 'found' branch up to the success box.   *)
(* A result records the box (address, pk, scanned, timeSpent in            *)
(* milliseconds) and msg.attempts.                                         *)
(***************************************************************************)
\* Replaces the total by the attempts of the message.
AddAttemptsAssign(total, msg) == msg.attempts

\* Line 159.
AddAttempts(total, msg) == total + msg.attempts

HandleFound(w) ==
    /\ mainPc = "listen"
    /\ chan[w] # <<>>
    /\ Head(chan[w]).type = "found"
    /\ chan' = [chan EXCEPT ![w] = Tail(@)]
    /\ totalCount' = AddAttempts(totalCount, Head(chan[w]))
    /\ results' = Append(results, [address |-> Head(chan[w]).address,
                                   pk |-> Head(chan[w]).pk,
                                   attempts |-> Head(chan[w]).attempts,
                                   timeSpent |-> now - startTime,
                                   scanned |-> totalCount'])
    /\ mainPc' = "found"
    /\ UNCHANGED <<now, statVars, config, errorMsg, workerData, spawned, wstate, localCount,
                   iters, sent, firstMatch, lastEval, ticksDrained, lateIter>>

(***************************************************************************)
(* Main thread, lines 172-173: terminate every worker and exit.            *)
(***************************************************************************)
\* Terminates the workers, and goes on listening.
TerminateNoExit ==
    /\ mainPc = "found"
    /\ wstate' = [w \in Workers |->
                    IF w <= spawned THEN "terminated" ELSE wstate[w]]
    /\ mainPc' = "listen"
    /\ UNCHANGED <<now, statVars, config, errorMsg, workerData, spawned, localCount, chan,
                   totalCount, results, iters, sent, firstMatch, lastEval,
                   ticksDrained, lateIter>>

\* Leaves the handler with the workers running.
ExitNoTerminate ==
    /\ mainPc = "found"
    /\ mainPc' = "exit0"
    /\ UNCHANGED <<now, statVars, config, errorMsg, workerData, spawned, wstate, localCount,
                   chan, totalCount, results, iters, sent, firstMatch,
                   lastEval, ticksDrained, lateIter>>

TerminateAndExit ==
    /\ mainPc = "found"
    /\ wstate' = [w \in Workers |->
                    IF w <= spawned THEN "terminated" ELSE wstate[w]]
    /\ mainPc' = "exit0"
    /\ UNCHANGED <<now, statVars, config, errorMsg, workerData, spawned, localCount, chan,
                   totalCount, results, iters, sent, firstMatch, lastEval,
                   ticksDrained, lateIter>>

(***************************************************************************)
(* Main thread, lines 175-205: the 'tick' branch.  The progress line is    *)
(* kept as the numbers it is written from: speed in keys per second        *)
(* (rounded down), probability in units of 1/100000.                       *)
(***************************************************************************)
\* Replaces the total by the count of the tick.
AddCountAssign(total, msg) == msg.count

\* Line 176.
AddCount(total, msg) == total + msg.count

\* Due as soon as the interval has elapsed.
RenderDueAtInterval(time, last) == time - last >= LogInterval

\* Line 179.
RenderDue(time, last) == time - last > LogInterval

\* Lines 180-181: totalCount / elapsed, elapsed in seconds; a division by
\* zero gives Infinity (totalCount is positive here).
Speed(total, elapsedMs) ==
    IF elapsedMs = 0 THEN Infinity ELSE Finite((total * 1000) \div elapsedMs)

\* What Math.exp may return for the arguments -totalCount / difficulty of one
\* run: 1 at 0, a value between 0 and 1 otherwise (0 when the result
\* underflows), never above what it returned for a smaller total.
ExpLevels == {0, 5, 50000}

MathExp(total, last) ==
    IF total = 0 THEN {ProbOne} ELSE {e \in ExpLevels : e <= last}

\* A probability that is not clamped.
ProbNoClamp(e) == ProbOne - e

\* Lines 183-184.
Prob(e) == IF ProbOne - e > ProbClamp THEN ProbClamp ELSE ProbOne - e

\* Lines 180-203: the numbers of the progress line.
Snapshot(total, elapsedMs, e) ==
    [scanned |-> total, elapsed |-> elapsedMs, speed |-> Speed(total, elapsedMs),
     exp |-> e, prob |-> Prob(e), any |-> TRUE]

HandleTick(w) ==
    /\ mainPc = "listen"
    /\ chan[w] # <<>>
    /\ Head(chan[w]).type = "tick"
    /\ chan' = [chan EXCEPT ![w] = Tail(@)]
    /\ totalCount' = AddCount(totalCount, Head(chan[w]))
    /\ ticksDrained' = ticksDrained + 1
    /\ IF RenderDue(now, lastLog)
       THEN /\ \E e \in MathExp(totalCount', rendered.exp) :
                 rendered' = Snapshot(totalCount', now - startTime, e)
            /\ lastLog' = now
       ELSE UNCHANGED <<rendered, lastLog>>
    /\ UNCHANGED <<config, mainPc, errorMsg, workerData, spawned, wstate,
                   localCount, results, difficulty, now, startTime, iters,
                   sent, firstMatch, lastEval, lateIter>>

(***************************************************************************)
(* The clock: Date.now() does not go back.                                 *)
(***************************************************************************)
ClockSteps == {100, 101}

Advance ==
    /\ \E d \in ClockSteps :
         /\ now + d <= StartClock + MaxElapsed
         /\ now' = now + d
    /\ UNCHANGED <<config, mainPc, errorMsg, workerData, spawned, wstate,
                   localCount, chan, totalCount, results, statVars, iters,
                   sent, firstMatch, lastEval, ticksDrained, lateIter>>

(***************************************************************************)
(* Worker, lines 216-237: one turn of the loop.  Nothing it does touches   *)
(* anything but its own counter and its own port, so the turn is one step. *)
(***************************************************************************)
\* Compares the address as the provider spells it.
AddrAsIs(data, address) == address

\* Line 218.
Addr(data, address) ==
    IF data.isCaseSensitive THEN address ELSE ToLowerCase(address)

\* Line 220.
IsPrefixMatch(data, address) ==
    \/ data.prefix = <<>>
    \/ StartsWith(Addr(data, address), <<"0", "x">> \o data.prefix)

\* Line 221.
IsSuffixMatch(data, address) ==
    \/ data.suffix = <<>>
    \/ EndsWith(Addr(data, address), data.suffix)

\* A match of the prefix or of the suffix.
IsMatchEither(data, address) ==
    IsPrefixMatch(data, address) \/ IsSuffixMatch(data, address)

\* Line 225.
IsMatch(data, address) ==
    IsPrefixMatch(data, address) /\ IsSuffixMatch(data, address)

\* Lines 226-231.
FoundMsg(address, pk, attempts) ==
    [type |-> "found", address |-> address, pk |-> pk, attempts |-> attempts]

\* Line 235.
TickMsg == [type |-> "tick", count |-> BATCH_SIZE]

\* A batch that is full one attempt late.
BatchFullLate(count) == count > BATCH_SIZE

\* Line 234.
BatchFull(count) == count % BATCH_SIZE = 0

\* A counter that is never reset.
NextCountNoReset(count) == count

\* Lines 234 and 236: the counter the next turn starts with.
NextCount(count) == IF BatchFull(count) THEN 0 ELSE count

\* Posts 'found' whatever the comparison said.
PostedAlways(match, address, pk, count) ==
    <<FoundMsg(address, pk, count)>>
        \o (IF BatchFull(count) THEN <<TickMsg>> ELSE <<>>)

\* The messages one turn posts, in order, given the counter after line 223.
Posted(match, address, pk, count) ==
    (IF match THEN <<FoundMsg(address, pk, count)>> ELSE <<>>)
        \o (IF BatchFull(count) THEN <<TickMsg>> ELSE <<>>)

WorkerTurn(w, limit) ==
    /\ wstate[w] = "running"
    /\ iters[w] < limit
    /\ \E pk \in Keys :
         LET address == PrivateKeyToAddress(pk)
             match == IsMatch(workerData, address)
             count == localCount[w] + 1
             posted == Posted(match, address, pk, count)
         IN  /\ chan' = [chan EXCEPT ![w] = @ \o posted]
             /\ sent' = [sent EXCEPT ![w] = @ \o posted]
             /\ localCount' = [localCount EXCEPT ![w] = NextCount(count)]
             /\ firstMatch' = [firstMatch EXCEPT
                                 ![w] = IF match /\ @ = 0
                                        THEN iters[w] + 1 ELSE @]
             /\ lastEval' = [lastEval EXCEPT
                               ![w] = [addr |-> address, match |-> match]]
    /\ iters' = [iters EXCEPT ![w] = @ + 1]
    /\ lateIter' = (lateIter \/ mainPc = "found")
    /\ UNCHANGED <<now, statVars, config, mainPc, errorMsg, workerData, spawned, wstate,
                   totalCount, results, ticksDrained>>

WorkerIterate(w) == WorkerTurn(w, MaxIter)

Next ==
    \/ Validate
    \/ Spawn
    \/ \E w \in Workers : HandleFound(w)
    \/ \E w \in Workers : HandleTick(w)
    \/ TerminateAndExit
    \/ \E w \in Workers : WorkerIterate(w)

\* The concurrent runs: a few patterns, one or two workers.
Spec == Init /\ [][Next]_vars

\* The same runs, with the main thread's event loop running and every
\* port's messages delivered.
LiveSpec ==
    /\ Spec
    /\ WF_vars(Validate \/ Spawn \/ TerminateAndExit)
    /\ \A w \in Workers : WF_vars(HandleFound(w) \/ HandleTick(w))

(***************************************************************************)
(* Pattern construction and the comparison over every pattern of up to     *)
(* MaxPrefixLen + MaxSuffixLen characters: one worker, followed for its    *)
(* first turn.                                                             *)
(***************************************************************************)
InitPattern ==
    InitWith(Strs(PatChars, MaxPrefixLen), Strs(PatChars, MaxSuffixLen), {1})

NextPattern ==
    \/ Validate
    \/ Spawn
    \/ \E w \in Workers : (iters[w] = 0 /\ WorkerIterate(w))
    \/ \E w \in Workers : HandleFound(w)
    \/ TerminateAndExit

SpecPattern == InitPattern /\ [][NextPattern]_vars

(***************************************************************************)
(* Runs in which the provider never yields a matching address, with the    *)
(* worker threads running, the main thread's event loop running and every  *)
(* port's messages delivered.                                              *)
(***************************************************************************)
NoMatchTurn(w) == WorkerIterate(w) /\ firstMatch'[w] = 0

NextNoMatch ==
    \/ Validate
    \/ Spawn
    \/ \E w \in Workers : HandleTick(w)
    \/ \E w \in Workers : NoMatchTurn(w)

SpecNoMatch ==
    /\ Init
    /\ [][NextNoMatch]_vars
    /\ WF_vars(Validate \/ Spawn)
    /\ \A w \in Workers : WF_vars(HandleTick(w))
    /\ \A w \in Workers : WF_vars(NoMatchTurn(w))

(***************************************************************************)
(* Timed runs: one worker, followed for MaxTimedIter turns, while the      *)
(* clock advances.                                                         *)
(***************************************************************************)
InitTimed == InitWith(RunPrefixes, RunSuffixes, {1})

TimedTurn(w) == WorkerTurn(w, MaxTimedIter)

NextTimed ==
    \/ Validate
    \/ Spawn
    \/ \E w \in Workers : HandleFound(w)
    \/ \E w \in Workers : HandleTick(w)
    \/ TerminateAndExit
    \/ \E w \in Workers : TimedTurn(w)
    \/ Advance

SpecTimed == InitTimed /\ [][NextTimed]_vars

(***************************************************************************)
(* Properties.                                                             *)
(***************************************************************************)
TypeCount(seq, t) == Cardinality({i \in DOMAIN seq : seq[i].type = t})

\* The main thread takes the 'found' message at the head of w's port.
TakesFound(w) ==
    /\ chan[w] # <<>>
    /\ Head(chan[w]).type = "found"
    /\ chan'[w] = Tail(chan[w])

\* C1: the Coordinator accepts at most one MatchResult.  The first 'found'
\* message it takes becomes the one result (one success box, exactly one in
\* a run that has exited with status 0), and once there is a result no
\* message is taken any more: the result and totalCount stay as they are,
\* whatever 'found' messages arrive afterwards.
C1_AtMostOneResult ==
    /\ [](Len(results) <= 1)
    /\ [](mainPc = "exit0" => Len(results) = 1)
    /\ [][\A w \in Workers :
            TakesFound(w) =>
              /\ results = <<>>
              /\ Len(results') = 1
              /\ results'[1].address = Head(chan[w]).address
              /\ results'[1].pk = Head(chan[w]).pk]_vars
    /\ [][results # <<>> =>
            /\ results' = results
            /\ totalCount' = totalCount
            /\ \A w \in Workers : Len(chan'[w]) >= Len(chan[w])]_vars

\* A run has ended with its result while another 'found' message waits.
C1_Witness ==
    /\ mainPc = "exit0"
    /\ Len(results) = 1
    /\ \E w \in Workers : TypeCount(chan[w], "found") > 0

\* C2: after a worker has posted a 'found' message it posts nothing more:
\* in what a worker has posted, a 'found' message is the last one.
C2_SilentAfterFound ==
    \A w \in Workers :
      \A i \in DOMAIN sent[w] :
        sent[w][i].type = "found" => i = Len(sent[w])

\* C3 as stated: 'found' messages come from at most one worker of a run.
C3_OneProducer ==
    Cardinality({w \in Workers : TypeCount(sent[w], "found") > 0}) <= 1

\* C3, amended: several workers may post a 'found' message in one run, but a
\* worker posts one only in a turn whose comparison matched and only while
\* it runs and the main thread has not exited, and the result of the run is
\* one of the messages posted.
C3_FoundOnlyOnMatch ==
    /\ [][\A w \in Workers :
            TypeCount(sent'[w], "found") > TypeCount(sent[w], "found") =>
              /\ lastEval'[w].match
              /\ sent'[w][Len(sent[w]) + 1].address = lastEval'[w].addr
              /\ wstate[w] = "running"
              /\ mainPc # "exit0"]_vars
    /\ [](\A r \in DOMAIN results :
            \E w \in Workers : \E i \in DOMAIN sent[w] :
              /\ sent[w][i].type = "found"
              /\ sent[w][i].address = results[r].address
              /\ sent[w][i].pk = results[r].pk
              /\ sent[w][i].attempts = results[r].attempts)

\* Two workers have posted a 'found' message each, and the run has ended.
C3_Witness ==
    /\ mainPc = "exit0"
    /\ \A w \in Workers : TypeCount(sent[w], "found") > 0

\* C4: when the result is delivered (the success box is printed), every
\* worker spawned has been told to stop, and no worker starts a turn
\* afterwards.
C4_StoppedBeforeResult ==
    results # <<>> =>
      /\ \A w \in 1 .. spawned : wstate[w] = "terminated"
      /\ ~lateIter

\* C5: a worker that has found no match in its first n turns has posted
\* exactly n \div BATCH_SIZE messages, every one a tick of count BATCH_SIZE,
\* and holds the remainder n % BATCH_SIZE in its counter, unreported.
C5_TicksPerBatch ==
    \A w \in Workers :
      firstMatch[w] = 0 =>
        /\ Len(sent[w]) = iters[w] \div BATCH_SIZE
        /\ \A i \in DOMAIN sent[w] :
             sent[w][i] = [type |-> "tick", count |-> BATCH_SIZE]
        /\ localCount[w] = iters[w] % BATCH_SIZE

\* A worker without a match is one turn past its first tick.
C5_Witness ==
    \E w \in Workers :
      /\ firstMatch[w] = 0
      /\ iters[w] = BATCH_SIZE + 1
      /\ Len(sent[w]) = 1

Rejected(error) ==
    /\ mainPc = "exit1"
    /\ errorMsg = error
    /\ spawned = 0
    /\ \A w \in Workers : wstate[w] = "none" /\ iters[w] = 0 /\ sent[w] = <<>>
    /\ totalCount = 0
    /\ ticksDrained = 0
    /\ results = <<>>

\* C6: once validation is over, an empty prefix with an empty suffix has
\* made the run exit with the Empty error, and a character outside
\* [0-9a-fA-F] in prefix + suffix with the InvalidHex error; in both cases
\* no worker was spawned and no message was handled.
C6_RejectsBadInput ==
    mainPc # "validate" =>
      /\ (config.prefix = <<>> /\ config.suffix = <<>>) => Rejected("Empty")
      /\ (\E i \in DOMAIN (config.prefix \o config.suffix) :
            (config.prefix \o config.suffix)[i] \notin HexChars)
           => Rejected("InvalidHex")

\* A suffix with a character that is no hex digit, after a good prefix.
C6_Witness ==
    /\ mainPc = "exit1"
    /\ errorMsg = "InvalidHex"
    /\ config.prefix = <<"a">>
    /\ config.suffix = <<"g">>

\* C7: for every hex string h, the prefix "0x" + h is accepted and stored
\* as h (lower-cased unless the run is case sensitive).
C7_StripsPrefix0x ==
    ( /\ mainPc # "validate"
      /\ StartsWith(config.prefix, <<"0", "x">>)
      /\ IsHex(Slice2(config.prefix))
      /\ (config.suffix = <<>> \/ IsHex(config.suffix)) )
    => /\ mainPc # "exit1"
       /\ workerData.prefix =
            (IF config.caseSensitive THEN Slice2(config.prefix)
             ELSE ToLowerCase(Slice2(config.prefix)))

\* The comparison of the lower-cased address with the lower-cased pattern.
LowerMatch(address, prefix, suffix) ==
    LET a == ToLowerCase(address)
        p == ToLowerCase(prefix)
        s == ToLowerCase(suffix)
    IN  /\ (p = <<>> \/ StartsWith(a, <<"0", "x">> \o p))
        /\ (s = <<>> \/ EndsWith(a, s))

\* C8: in a run that is not case sensitive, what a worker's comparison of an
\* address with the pattern gives is what comparing the lower-cased address
\* with the lower-cased prefix and suffix gives, so it does not depend on
\* the case of any letter of the address or of the pattern.
C8_CaseInsensitive ==
    \A w \in Workers :
      (lastEval[w] # NoEval /\ ~config.caseSensitive) =>
        lastEval[w].match =
          LowerMatch(lastEval[w].addr, config.prefix, config.suffix)

\* An upper-case pattern has matched a mixed-case address.
C8_Witness ==
    /\ ~config.caseSensitive
    /\ config.prefix = <<"A">>
    /\ config.suffix = <<>>
    /\ lastEval[1] = [addr |-> <<"0", "x", "a", "B">>, match |-> TRUE]

\* C9: with one worker whose first match is at turn k, the result finds
\* (k - 1) \div BATCH_SIZE ticks handled, carries
\* attempts = ((k - 1) % BATCH_SIZE) + 1, and reports k keys scanned.
C9_SingleWorker ==
    (config.threads = 1 /\ results # <<>>) =>
      LET k == firstMatch[1]
      IN  /\ k >= 1
          /\ ticksDrained = (k - 1) \div BATCH_SIZE
          /\ results[1].attempts = ((k - 1) % BATCH_SIZE) + 1
          /\ results[1].scanned = k

\* One worker has matched after a full batch, and the result is out.
C9_Witness ==
    /\ config.threads = 1
    /\ results # <<>>
    /\ firstMatch[1] > BATCH_SIZE

\* C10: a run has a result only if some worker has generated a matching
\* address, and once a worker has generated one the run comes to its result
\* and exits.
C10_FoundLeadsToExit ==
    /\ [](mainPc \in {"found", "exit0"} => \E w \in Workers : firstMatch[w] > 0)
    /\ (\E w \in Workers : firstMatch[w] > 0)
         ~> (mainPc = "exit0" /\ Len(results) = 1)

\* A run of two workers has exited with the match of the second.
C10_Witness ==
    /\ mainPc = "exit0"
    /\ config.threads = 2
    /\ firstMatch[1] = 0
    /\ firstMatch[2] > 0

C12_Difficulty ==
    mainPc \notin {"validate", "exit1"} =>
      difficulty = 16 ^ (Len(config.prefix) + Len(config.suffix))

\* A prefix and a suffix of three characters together.
C12_Witness ==
    /\ mainPc = "listen"
    /\ config.prefix = <<"a", "A">>
    /\ config.suffix = <<"0">>
    /\ difficulty = 4096

TakesTick(w) ==
    /\ chan[w] # <<>>
    /\ Head(chan[w]).type = "tick"
    /\ chan'[w] = Tail(chan[w])

\* C14: totalCount never decreases; it changes only when the main thread
\* takes a message, by count for a tick and by attempts for the 'found'
\* message; no turn of a worker changes it.
C14_TotalMonotone ==
    /\ [][totalCount' >= totalCount]_vars
    /\ [][totalCount' # totalCount =>
            \E w \in Workers : TakesTick(w) \/ TakesFound(w)]_vars
    /\ [][\A w \in Workers :
            /\ TakesTick(w) =>
                 totalCount' = totalCount + Head(chan[w]).count
            /\ TakesFound(w) =>
                 totalCount' = totalCount + Head(chan[w]).attempts]_vars
    /\ [][(\E w \in Workers : iters'[w] # iters[w]) =>
            totalCount' = totalCount]_vars

\* A run of two workers has its result after a tick was handled.
C14_Witness ==
    /\ config.threads = 2
    /\ ticksDrained >= 1
    /\ Len(results) = 1
    /\ results[1].scanned = totalCount
    /\ totalCount > BATCH_SIZE

\* C15: a progress line written when no time has elapsed since startTime
\* has speed zero, not the outcome of a division by zero.
C15_SpeedGuarded ==
    (rendered.any /\ rendered.elapsed = 0) =>
      (~rendered.speed.inf /\ rendered.speed.val = 0)

\* C16: a tick always adds its count to totalCount, and it writes a progress
\* line exactly when more than 100 ms have passed since the last one, so
\* that two progress lines in a row are more than 100 ms apart.
C16_Throttle ==
    /\ [][\A w \in Workers :
            TakesTick(w) =>
              /\ totalCount' = totalCount + Head(chan[w]).count
              /\ (rendered' # rendered) <=> (now - lastLog > 100)
              /\ (lastLog' # lastLog) <=> (now - lastLog > 100)]_vars
    /\ [][lastLog' # lastLog =>
            /\ lastLog' = now
            /\ lastLog' - lastLog > 100
            /\ \E w \in Workers : TakesTick(w)]_vars

\* A tick has been counted 100 ms after the last progress line, without a
\* progress line of its own.
C16_Witness ==
    /\ rendered.any
    /\ results = <<>>
    /\ now - lastLog = 100
    /\ ticksDrained = 2
    /\ rendered.scanned = BATCH_SIZE
    /\ totalCount = 2 * BATCH_SIZE

\* C17: every 'found' message posted carries attempts between 1 and
\* BATCH_SIZE, the number of turns its worker has made since the last tick
\* it posted (BATCH_SIZE turns for each tick posted); every tick carries
\* count = BATCH_SIZE.
C17_AttemptsSinceTick ==
    /\ [](\A w \in Workers : \A i \in DOMAIN sent[w] :
            /\ sent[w][i].type = "found" =>
                 (sent[w][i].attempts >= 1 /\ sent[w][i].attempts <= BATCH_SIZE)
            /\ sent[w][i].type = "tick" => sent[w][i].count = BATCH_SIZE)
    /\ [][\A w \in Workers :
            TypeCount(sent'[w], "found") > TypeCount(sent[w], "found") =>
              sent'[w][Len(sent[w]) + 1].attempts =
                iters'[w] - BATCH_SIZE * TypeCount(sent[w], "tick")]_vars

\* A worker has posted a 'found' message in the turn after a tick.
C17_Witness ==
    \E w \in Workers :
      /\ Len(sent[w]) >= 2
      /\ sent[w][Len(sent[w]) - 1].type = "tick"
      /\ sent[w][Len(sent[w])].type = "found"
      /\ sent[w][Len(sent[w])].attempts = 1

\* The address satisfies the pattern the workers were given.
Satisfies(address) ==
    LET a == IF config.caseSensitive THEN address ELSE ToLowerCase(address)
    IN  /\ workerData.prefix = <<>>
             \/ StartsWith(a, <<"0", "x">> \o workerData.prefix)
        /\ workerData.suffix = <<>> \/ EndsWith(a, workerData.suffix)

\* C18: the address of every 'found' message posted, and of the result,
\* starts with "0x" + prefix when the prefix is not empty and ends with the
\* suffix when the suffix is not empty, compared as it is in a case
\* sensitive run and lower-cased otherwise.
C18_ReportedAddressMatches ==
    /\ \A w \in Workers : \A i \in DOMAIN sent[w] :
         sent[w][i].type = "found" => Satisfies(sent[w][i].address)
    /\ \A r \in DOMAIN results : Satisfies(results[r].address)

\* A case sensitive run with a prefix and a suffix has its result.
C18_Witness ==
    /\ config.caseSensitive
    /\ config.prefix = <<"A">>
    /\ config.suffix = <<"0">>
    /\ Len(results) = 1
    /\ results[1].address = <<"0", "x", "A", "0">>

RECURSIVE SumOver(_, _)
SumOver(f, ws) ==
    IF ws = {} THEN 0
    ELSE LET w == CHOOSE x \in ws : TRUE
         IN  f[w] + SumOver(f, ws \ {w})

\* C19: totalCount never exceeds the number of turns all the workers have
\* made.
C19_NoDoubleCount == totalCount <= SumOver(iters, Workers)

\* The result is a match on a batch boundary, whose tick is never handled.
C19_Witness ==
    /\ mainPc = "exit0"
    /\ results[1].attempts = BATCH_SIZE
    /\ \E w \in Workers : TypeCount(chan[w], "tick") > 0
    /\ totalCount = SumOver(iters, Workers)

====
